---- MODULE Spec2Model ----
(***************************************************************************)
(* Model of scripts/csv_to_pointcloud.py (Tritech Micron CSV to LaserScan  *)
(* and PointCloud): the Slice parser, the Scan aggregator and its          *)
(* projections, driven row by row as main() drives them.                   *)
(*                                                                         *)
(* Conventions.                                                            *)
(*  - Python None is the empty tuple <<>>; an optional value v is <<v>>.   *)
(*  - A float that the code obtains by dividing integers is kept as the    *)
(*    exact fraction [num, den] (not normalised); min_range (line 71),     *)
(*    which truncates a float to an int, and max (lines 79 and 85), which  *)
(*    is compared with range, are computed in binary floating point,       *)
(*    rounding by rounding.                                                *)
(*  - Python 2 semantics: int / int is floor division, map() is a list.    *)
(*  - A CSV row is the record of its cells' values; ncols is its number    *)
(*    of columns and badcol the index of a cell that is not a number (or   *)
(*    not a timestamp, for column 1), -1 when every cell is well formed.   *)
(*  - Timestamps and the scan's stored time are integers in one unit.      *)
(***************************************************************************)
EXTENDS Integers, Sequences, FiniteSets, TLC

VARIABLES
    scan,        \* the Scan object of main(): shape fields, slices, time
    row,         \* main's loop variable row (<<>> before the first row)
    scan_slice,  \* main's loop variable scan_slice (<<>> before the first)
    cfg,         \* min_distance, min_intensity, threshold passed to main()
    op,          \* the last operation called
    ret,         \* what the last operation returned (<<>> is None)
    err          \* the exception that ended the program, "none" while running

vars == <<scan, row, scan_slice, cfg, op, ret, err>>

None == <<>>
Some(v) == <<v>>

----------------------------------------------------------------------------
(* Bounds of the model.                                                    *)

MaxSlices == 4     \* buffered slices (caps the growth of a never-full scan)
MaxTime == 2       \* stored time of the scan
MaxQueue == 2      \* queue argument of to_laser_scan
MaxBins == 5       \* intensity values of a row in the parser specification

----------------------------------------------------------------------------
(* Numbers.                                                                *)

Abs(n) == IF n < 0 THEN -n ELSE n

Rat(n, d) == [num |-> n, den |-> d]
Zero == Rat(0, 1)

\* Python list indexing lst[i] on a list of length n: the 0-based position
\* read or written, or -1 when Python raises IndexError.
PyIndex(n, i) ==
    IF 0 <= i /\ i < n THEN i
    ELSE IF -n <= i /\ i < 0 THEN n + i
    ELSE -1

\* Python slicing lst[start:].
PySliceFrom(lst, start) ==
    LET n == Len(lst)
        from == IF start < 0
                THEN (IF n + start < 0 THEN 0 ELSE n + start)
                ELSE (IF start > n THEN n ELSE start)
    IN  SubSeq(lst, from + 1, n)

----------------------------------------------------------------------------
(* The rows main() may read, and the parameters get_parameters() gives.    *)

Timestamps == {1, 2}
Headings == {0, 3200, 6400}

WithData(r, d) == [r EXCEPT !.data = d, !.ncols = 15 + Len(d)]

\* A continuous scan (the limits 3199, 3201) of two headings.
BaseRow ==
    [ncols |-> 17, badcol |-> -1, timestamp |-> 1, hdctrl |-> 0,
     range |-> 100, left_limit |-> 3199, right_limit |-> 3201,
     steps |-> 3200, heading |-> 0, num_bins |-> 2, data |-> <<60, 80>>]

\* One row per scan shape: the base shape and one change of each field.
ShapeRows ==
    { BaseRow,
      [BaseRow EXCEPT !.range = 200],
      [BaseRow EXCEPT !.num_bins = 1],
      [BaseRow EXCEPT !.hdctrl = 4],
      [BaseRow EXCEPT !.steps = 2000],       \* three headings, 6400 / 2000
      [BaseRow EXCEPT !.steps = 0],
      [BaseRow EXCEPT !.left_limit = 3201],  \* left = right: no heading
      [BaseRow EXCEPT !.right_limit = 0] }   \* right < left: one heading

\* The shapes of which many slices are read: two and three headings.
RichShapeRows == { BaseRow, [BaseRow EXCEPT !.steps = 2000] }

\* The slices of one shape: for a rich shape every heading at every time,
\* and other data (one of them shorter than num_bins); for the other
\* shapes three slices.
SliceRows(r) ==
    IF r \in RichShapeRows
    THEN { [r EXCEPT !.heading = h, !.timestamp = t] :
               h \in Headings, t \in Timestamps }
         \cup { WithData(r, d) : d \in { <<60, 10>>, <<60>> } }
    ELSE { r, [r EXCEPT !.heading = 3200, !.timestamp = 2], WithData(r, <<60>>) }

\* Rows the parser rejects: a malformed steps cell, a malformed timestamp,
\* a malformed intensity value, a truncated row, no bins, no range, no
\* intensity values.
BadRows ==
    { [BaseRow EXCEPT !.badcol = 12],
      [BaseRow EXCEPT !.badcol = 1],
      [BaseRow EXCEPT !.badcol = 16],
      [BaseRow EXCEPT !.ncols = 10, !.data = <<>>],
      [BaseRow EXCEPT !.num_bins = 0],
      [BaseRow EXCEPT !.range = 0],
      WithData(BaseRow, <<>>) }

Rows == UNION { SliceRows(r) : r \in ShapeRows } \cup BadRows

\* Lines 299-302: the defaults of min_distance, min_intensity, threshold.
DefaultConfig ==
    [min_distance |-> 1, min_intensity |-> 50, threshold |-> Rat(1, 2)]

Configs == { DefaultConfig }

Queues == 0..MaxQueue

\* The rows and the parameters of the parser specification.
Intensities == {0, 60, 80}

\* The rows of the parser specification: up to MaxBins intensity values,
\* the example row of five bins, a bin count equal to the number of values
\* or equal to 2 or 5, ranges of 10 m and 2 m, a row of 7.4 m and 37
\* bins, whose 1 / 7.4 * 37 is 4.999999999999999 in floats and 5 in the
\* reals, and a row of 0.1 m and 3 bins, whose 3 * 0.1 / 3 is
\* 0.10000000000000002 in floats.
BinSeqs ==
    UNION { [1..n -> Intensities] : n \in 1..MaxBins }
    \cup { <<10, 60, 5, 80, 40>> }

ParserRows ==
    { [WithData(BaseRow, d) EXCEPT !.range = rg, !.num_bins = nb] :
          rg \in {20, 100}, d \in BinSeqs, nb \in {2, 5} }
    \cup { [WithData(BaseRow, d) EXCEPT !.num_bins = Len(d)] : d \in BinSeqs }
    \cup { [WithData(BaseRow, <<0, 0, 0, 0, 0, 60>>)
               EXCEPT !.range = 74, !.num_bins = 37] }
    \cup { [WithData(BaseRow, <<0, 0, 60>>)
               EXCEPT !.range = 1, !.num_bins = 3] }
    \cup BadRows

ParserConfigs ==
    [min_distance : {0, 1, 3}, min_intensity : {50, 70},
     threshold : { Rat(-1, 1), Rat(1, 2), Rat(55, 1), Rat(1000, 1) }]

----------------------------------------------------------------------------
(* Slice: one parsed row.                                                  *)

\* sonar_angle_to_rad(angle) = angle * pi / 3200: the angle as a fraction
\* of pi.
sonar_angle_to_rad(angle) == Rat(angle, 3200)

\* FieldError that takes a malformed cell for a number.
FieldErrorOfColumns(r) ==
    IF r.ncols < 15 THEN "IndexError" ELSE "none"

\* Lines 47-62: the cells are converted in column order; a missing column
\* raises IndexError, a malformed cell ValueError, whichever comes first.
\* row[0] is kept as a string and row[15:] never raises IndexError.
FieldError(r) ==
    LET firstMissing == IF r.ncols < 15 THEN r.ncols ELSE 15
    IN  IF r.badcol >= 1 /\ r.badcol < firstMissing THEN "ValueError"
        ELSE IF r.ncols < 15 THEN "IndexError"
        ELSE IF r.badcol >= 15 /\ r.badcol < r.ncols THEN "ValueError"
        ELSE "none"

\* Line 65: the direction bit is the third bit of hdctrl.
Clockwise(hdctrl) == (hdctrl \div 4) % 2 = 1

\* Slice.to_points: one point per r in 1..num_bins along the heading, at
\* radius r * range / num_bins; a point is kept as its heading and radius.
to_points(range, num_bins, heading) ==
    [r \in 1..num_bins |->
        [heading |-> sonar_angle_to_rad(heading),
         radius |-> Rat(r * range.num, range.den * num_bins)]]

\* Lines 72-77: the masked intensities.
MaskedData(data, min_intensity, min_range) ==
    [i \in 1..Len(data) |->
        IF data[i] > min_intensity /\ (i - 1) > min_range THEN data[i] ELSE 0]

\* np.argmax on a non-empty list: the 0-based index of the first maximum,
\* found by one pass that keeps the best index so far.
RECURSIVE ArgMaxFrom(_, _, _)
ArgMaxFrom(data, i, best) ==
    IF i > Len(data) THEN best - 1
    ELSE ArgMaxFrom(data, i + 1, IF data[i] > data[best] THEN i ELSE best)

ArgMax(data) == ArgMaxFrom(data, 2, 1)

\* Lines 83-87: the 0-based index of the first value over threshold, -1
\* when the loop ends without a break. The threshold is a fraction (its
\* default is 0.5) with a positive denominator.
RECURSIVE FirstOverFrom(_, _, _)
FirstOverFrom(data, threshold, i) ==
    IF i > Len(data) THEN -1
    ELSE IF data[i] * threshold.den > threshold.num THEN i - 1
    ELSE FirstOverFrom(data, threshold, i + 1)

FirstOver(data, threshold) == FirstOverFrom(data, threshold, 1)

\* ChosenIndex without the loop of lines 83-87.
ChosenIndexOfMaximum(data, threshold) == ArgMax(data)

\* Lines 78-87: the 0-based index of the bin the slice reports: the first
\* maximum of the masked data, replaced by the first masked value over
\* threshold when there is one.
ChosenIndex(data, threshold) ==
    IF FirstOver(data, threshold) >= 0
    THEN FirstOver(data, threshold)
    ELSE ArgMax(data)

----------------------------------------------------------------------------
(* Binary floating point. Line 71 truncates a float to an int, so the      *)
(* roundings of the two divisions and of the product decide its value:     *)
(* 1 / 7.4 * 37 is 4.999999999999999 and int() of it is 4; and lines 79    *)
(* and 85 round a product and a quotient: 3 * 0.1 / 3 is                   *)
(* 0.10000000000000002, above 0.1. A positive                              *)
(* float is [m, e] of value m * 2^e, m a significand of 53 bits            *)
(* (2^52 <= m < 2^53) held as three limbs <<a, b, c>> of 18 bits, of value *)
(* a * Limb^2 + b * Limb + c, so that no intermediate passes 2^31.         *)

Limb == 2^18

\* x * n for 0 <= n < 2^13; the first limb takes what passes 54 bits.
Times(x, n) ==
    LET c == x[3] * n
        b == x[2] * n + c \div Limb
    IN  <<x[1] * n + b \div Limb, b % Limb, c % Limb>>

\* x \div 2^j for 0 <= j <= 12.
Shr(x, j) ==
    <<x[1] \div 2^j,
      (x[2] + (x[1] % 2^j) * Limb) \div 2^j,
      (x[3] + (x[2] % 2^j) * Limb) \div 2^j>>

\* x + 1.
Inc(x) ==
    IF x[3] + 1 < Limb THEN <<x[1], x[2], x[3] + 1>>
    ELSE IF x[2] + 1 < Limb THEN <<x[1], x[2] + 1, 0>>
    ELSE <<x[1] + 1, 0, 0>>

\* x >= y.
Geq(x, y) ==
    \/ x[1] > y[1]
    \/ x[1] = y[1] /\ x[2] > y[2]
    \/ x[1] = y[1] /\ x[2] = y[2] /\ x[3] >= y[3]

\* x - y for x >= y.
Sub(x, y) ==
    LET c == x[3] - y[3]
        cb == IF c < 0 THEN 1 ELSE 0
        b == x[2] - y[2] - cb
        bb == IF b < 0 THEN 1 ELSE 0
    IN  <<x[1] - y[1] - bb, b + bb * Limb, c + cb * Limb>>

\* The float of value x * 2^e, x # 0 below 2^53: x shifted left to 53
\* bits, by a limb while the limb that comes to the front stays below
\* 2^17.
RECURSIVE Normal(_, _)
Normal(x, e) ==
    IF x[1] = 0 /\ x[2] < 2^17 THEN Normal(<<x[2], x[3], 0>>, e - 18)
    ELSE IF x[1] = 0 THEN Normal(Times(x, 2^12), e - 12)
    ELSE LET j == CHOOSE k \in 0..16 : 2^(16 - k) <= x[1] /\ x[1] < 2^(17 - k)
         IN  IF j > 12 THEN Normal(Times(x, 2^12), e - 12)
             ELSE [m |-> Times(x, 2^j), e |-> e - j]

\* float(k) of an int 1 <= k < 2^31: exact.
FromInt(k) == Normal(<<0, k \div Limb, k % Limb>>, 0)

\* Round to nearest, ties to even: the float nearest to (q + f) * 2^e, q
\* of 54 bits and 0 <= f < 1 with sticky = (f # 0).
RoundNearestEven(q, sticky, e) ==
    LET m == Shr(q, 1)
        up == q[3] % 2 = 1 /\ (sticky \/ m[3] % 2 = 1)
        r == IF up THEN Inc(m) ELSE m
    IN  IF r[1] >= 2^17 THEN [m |-> Shr(r, 1), e |-> e + 2]
        ELSE [m |-> r, e |-> e + 1]

\* One more bit of the quotient s.q of a long division by d, s.rem < d
\* the remainder so far.
DivBit(s, d) ==
    LET r == Times(s.rem, 2)
    IN  IF Geq(r, d) THEN [q |-> Inc(Times(s.q, 2)), rem |-> Sub(r, d)]
        ELSE [q |-> Times(s.q, 2), rem |-> r]

\* x * 2^k, the product below 2^54.
RECURSIVE Shl(_, _)
Shl(x, k) ==
    IF k >= 18 THEN Shl(<<x[2], x[3], 0>>, k - 18)
    ELSE IF k > 12 THEN Times(Times(x, 2^12), 2^(k - 12))
    ELSE Times(x, 2^k)

\* k >= 1 more bits of the quotient; they are zeros once the division
\* has come out even.
RECURSIVE DivBits(_, _, _)
DivBits(s, d, k) ==
    IF s.rem = <<0, 0, 0>> THEN [q |-> Shl(s.q, k), rem |-> s.rem]
    ELSE IF k = 1 THEN DivBit(s, d)
    ELSE DivBits(DivBits(s, d, k \div 2), d, k - k \div 2)

\* x / y of two floats: the quotient of the significands to 54 bits, the
\* first of them 1, then rounded.
FDiv(x, y) ==
    LET ge == Geq(x.m, y.m)
        first == IF ge THEN Sub(x.m, y.m) ELSE Sub(Times(x.m, 2), y.m)
        d == DivBits([q |-> <<0, 0, 1>>, rem |-> first], y.m, 53)
    IN  RoundNearestEven(d.q, d.rem # <<0, 0, 0>>,
                         x.e - y.e - (IF ge THEN 53 ELSE 54))

\* x + y; the first limb takes what passes 54 bits.
Add(x, y) ==
    LET c == x[3] + y[3]
        b == x[2] + y[2] + c \div Limb
    IN  <<x[1] + y[1] + b \div Limb, b % Limb, c % Limb>>

\* x * n for 1 <= n < 2^31, n taken 11 bits at a time from the low end:
\* [p, sticky, e] with p = (acc * 2^e + x * n) \div 2^e' for the e'
\* returned and sticky telling whether bits other than 0 were cut. p is
\* x * n itself for n < 2^12 and has 54 bits or more otherwise.
RECURSIVE Product(_, _, _, _, _)
Product(x, n, acc, sticky, e) ==
    IF n < 2^12
    THEN [p |-> Add(acc, Times(x, n)), sticky |-> sticky, e |-> e]
    ELSE LET t == Add(acc, Times(x, n % 2^11))
         IN  Product(x, n \div 2^11, Shr(t, 11),
                     sticky \/ t[3] % 2^11 # 0, e + 11)

\* x * n of a float and the float of an int 1 <= n < 2^31: the exact
\* product, cut to 54 bits when it is longer than 53, then rounded.
FMulInt(x, n) ==
    LET r == Product(x.m, n, <<0, 0, 0>>, FALSE, x.e)
        j == CHOOSE k \in 0..12 : 2^(17 + k) <= r.p[1] /\ r.p[1] < 2^(18 + k)
    IN  IF r.p[1] < 2^17 THEN [m |-> r.p, e |-> r.e]
        ELSE RoundNearestEven(Shr(r.p, j), r.sticky \/ r.p[3] % 2^j # 0,
                              r.e + j)

\* x \div 2^k.
RECURSIVE ShiftRight(_, _)
ShiftRight(x, k) ==
    IF k >= 18 THEN ShiftRight(<<0, x[1], x[2]>>, k - 18)
    ELSE IF k > 12 THEN Shr(Shr(x, 12), k - 12)
    ELSE Shr(x, k)

\* int(x) of a float below 2^31: the integer part.
FInt(x) ==
    IF x.e <= -53 THEN 0
    ELSE LET s == ShiftRight(x.m, -x.e) IN s[2] * Limb + s[3]

\* Line 71: int(min_distance / self.range * self.num_bins), range the
\* float of line 52, float(row[5]) / 10 (range.num / range.den, not 0);
\* the operations round alike for either sign and int() truncates toward
\* zero.
MinRange(min_distance, range, num_bins) ==
    IF min_distance = 0 \/ num_bins = 0 THEN 0
    ELSE (IF (min_distance < 0) # ((range.num < 0) # ((range.den < 0)
                                             # (num_bins < 0)))
          THEN -1 ELSE 1)
         * FInt(FMulInt(FDiv(FromInt(Abs(min_distance)),
                             FDiv(FromInt(Abs(range.num)),
                                  FromInt(Abs(range.den)))),
                        Abs(num_bins)))

\* MinRange of the rows and the parameters of the two specifications,
\* evaluated once.
MinRangeTable ==
    [t \in { <<c.min_distance, r.range, r.num_bins>> :
                 c \in Configs \cup ParserConfigs,
                 r \in { x \in Rows \cup ParserRows : x.range # 0 } }
        |-> MinRange(t[1], Rat(t[2], 10), t[3])]

\* min_range of line 71 for the range cell row[5]: MinRange, read from
\* the table where the table has it.
min_range(min_distance, cell, num_bins) ==
    IF <<min_distance, cell, num_bins>> \in DOMAIN MinRangeTable
    THEN MinRangeTable[<<min_distance, cell, num_bins>>]
    ELSE MinRange(min_distance, Rat(cell, 10), num_bins)

\* A float with its sign, [neg, m, e] of value (-1)^neg * m * 2^e.
Signed(neg, x) == [neg |-> neg, m |-> x.m, e |-> x.e]

\* Line 52: float(row[5]) / 10 for the range cell row[5], not 0.
RangeFloat(cell) ==
    Signed(cell < 0, FDiv(FromInt(Abs(cell)), FromInt(10)))

\* Lines 79 and 85: (i + 1) * self.range / self.num_bins for k = i + 1,
\* the product rounded and then the quotient; num_bins is not 0.
BinRange(cell, k, num_bins) ==
    Signed((cell < 0) # (num_bins < 0),
           FDiv(FMulInt(FDiv(FromInt(Abs(cell)), FromInt(10)), k),
                FromInt(Abs(num_bins))))

\* BinRange of the rows of the two specifications and of each of their
\* bins, evaluated once.
BinRangeTable ==
    [t \in UNION { { <<r.range, k, r.num_bins>> : k \in 1..Len(r.data) } :
                     r \in { x \in Rows \cup ParserRows :
                                 x.range # 0 /\ x.num_bins # 0 } }
        |-> BinRange(t[1], t[2], t[3])]

\* self.max of lines 79 and 85 for the bin k - 1: BinRange, read from the
\* table where the table has it.
bin_range(cell, k, num_bins) ==
    IF <<cell, k, num_bins>> \in DOMAIN BinRangeTable
    THEN BinRangeTable[<<cell, k, num_bins>>]
    ELSE BinRange(cell, k, num_bins)

\* Slice.__init__: [exc, val], val the Slice when exc = "none".
Slice(r, min_distance, min_intensity, threshold) ==
    LET range == Rat(r.range, 10)
        raised(e) == [exc |-> e, val |-> None]
    IN  IF FieldError(r) # "none" THEN raised(FieldError(r))
        ELSE IF r.num_bins = 0 THEN raised("ZeroDivisionError")   \* line 99
        ELSE IF r.range = 0 THEN raised("ZeroDivisionError")      \* line 71
        ELSE IF Len(r.data) = 0 THEN raised("ValueError")         \* line 78
        ELSE
        LET data == MaskedData(r.data, min_intensity,
                               min_range(min_distance, r.range, r.num_bins))
            chosen == ChosenIndex(data, threshold)
        IN  [exc |-> "none",
             val |-> [timestamp |-> r.timestamp,
                      hdctrl |-> r.hdctrl,
                      range |-> range,
                      left_limit |-> r.left_limit,
                      right_limit |-> r.right_limit,
                      steps |-> r.steps,
                      heading |-> r.heading,
                      num_bins |-> r.num_bins,
                      data |-> r.data,
                      clockwise |-> Clockwise(r.hdctrl),
                      points |-> to_points(range, r.num_bins, r.heading),
                      max |-> bin_range(r.range, chosen + 1, r.num_bins),
                      max_intensity |-> r.data[chosen + 1]]]

\* Slice.to_pointcloud: the points and the intensity channel of one slice.
SliceToPointcloudResult(self) ==
    [points |-> to_points(self.range, self.num_bins, self.heading),
     channel |-> self.data]

----------------------------------------------------------------------------
(* Scan: the aggregator.                                                   *)

\* Scan.__init__; the stored time is counted from the time of construction.
ScanInit ==
    [range |-> None, steps |-> None, num_bins |-> None,
     left_limit |-> None, right_limit |-> None, clockwise |-> None,
     slices |-> <<>>, time |-> 0]

\* Scan.empty
empty(self) == Len(self.slices) = 0

\* MaxRange with the two limits of the continuous scan exchanged.
MaxRangeSwapped(left_limit, right_limit) ==
    IF right_limit = 3199 /\ left_limit = 3201
    THEN 6400
    ELSE (right_limit - left_limit) % 6400

\* Lines 155-158 of Scan.full: the headings one sweep covers.
MaxRange(left_limit, right_limit) ==
    IF right_limit = 3201 /\ left_limit = 3199
    THEN 6400
    ELSE (right_limit - left_limit) % 6400

\* Scan.full: [exc, val]; the division by steps = 0 raises.
full(self) ==
    IF self.steps = None THEN [exc |-> "none", val |-> FALSE]
    ELSE IF self.steps[1] = 0 THEN [exc |-> "ZeroDivisionError", val |-> FALSE]
    ELSE [exc |-> "none",
          val |-> Len(self.slices) =
                    MaxRange(self.left_limit[1], self.right_limit[1])
                        \div self.steps[1]]

\* Differs without the comparison of clockwise.
DiffersButClockwise(self, s) ==
    \/ Some(s.range) # self.range
    \/ Some(s.num_bins) # self.num_bins
    \/ Some(s.steps) # self.steps
    \/ Some(s.left_limit) # self.left_limit
    \/ Some(s.right_limit) # self.right_limit

\* Lines 169-174 of Scan.add: the slice is of a different scan.
Differs(self, s) ==
    \/ Some(s.range) # self.range
    \/ Some(s.num_bins) # self.num_bins
    \/ Some(s.steps) # self.steps
    \/ Some(s.left_limit) # self.left_limit
    \/ Some(s.right_limit) # self.right_limit
    \/ Some(s.clockwise) # self.clockwise

\* Reset that clears the buffer and leaves the slice out.
ResetToEmpty(self, s) ==
    [self EXCEPT !.range = Some(s.range),
                 !.num_bins = Some(s.num_bins),
                 !.steps = Some(s.steps),
                 !.left_limit = Some(s.left_limit),
                 !.right_limit = Some(s.right_limit),
                 !.clockwise = Some(s.clockwise),
                 !.slices = <<>>]

\* Reset that appends the slice to the buffer it should replace.
ResetKeepingSlices(self, s) ==
    [self EXCEPT !.range = Some(s.range),
                 !.num_bins = Some(s.num_bins),
                 !.steps = Some(s.steps),
                 !.left_limit = Some(s.left_limit),
                 !.right_limit = Some(s.right_limit),
                 !.clockwise = Some(s.clockwise),
                 !.slices = Append(@, s)]

\* Lines 175-181 of Scan.add: the reset.
Reset(self, s) ==
    [self EXCEPT !.range = Some(s.range),
                 !.num_bins = Some(s.num_bins),
                 !.steps = Some(s.steps),
                 !.left_limit = Some(s.left_limit),
                 !.right_limit = Some(s.right_limit),
                 !.clockwise = Some(s.clockwise),
                 !.slices = <<s>>]

\* AppendSlice removing the newest slice of a full scan, not the oldest.
AppendSliceDropNewest(self, s, isFull) ==
    [self EXCEPT !.slices =
        Append(IF isFull THEN SubSeq(@, 1, Len(@) - 1) ELSE @, s)]

\* AppendSlice putting the slice at the head of the buffer.
AppendSliceAtHead(self, s, isFull) ==
    [self EXCEPT !.slices = <<s>> \o (IF isFull THEN Tail(@) ELSE @)]

\* Lines 184-187 of Scan.add: the oldest slice is removed if the scan is
\* full, and the slice appended.
AppendSlice(self, s, isFull) ==
    [self EXCEPT !.slices = Append(IF isFull THEN Tail(@) ELSE @, s)]

\* Scan.add: [exc, scan, path], scan the aggregator after the call and path
\* the way the call took through the method.
add(self, s) ==
    IF Differs(self, s)
    THEN [exc |-> "none", scan |-> Reset(self, s), path |-> "reset"]
    ELSE IF full(self).exc # "none"
    THEN [exc |-> full(self).exc, scan |-> self, path |-> "raise"]
    ELSE IF full(self).val /\ empty(self)                  \* pop(0) of []
    THEN [exc |-> "IndexError", scan |-> self, path |-> "raise"]
    ELSE [exc |-> "none", scan |-> AppendSlice(self, s, full(self).val),
          path |-> IF full(self).val THEN "evict" ELSE "append"]

----------------------------------------------------------------------------
(* The projections.                                                        *)

\* sorted(slices, key=timestamp): a stable sort, as insertion of each slice
\* after the slices whose timestamp is not greater.
RECURSIVE InsertByTime(_, _)
InsertByTime(sorted, s) ==
    IF sorted = <<>> THEN <<s>>
    ELSE IF sorted[Len(sorted)].timestamp <= s.timestamp THEN Append(sorted, s)
    ELSE Append(InsertByTime(SubSeq(sorted, 1, Len(sorted) - 1), s),
                sorted[Len(sorted)])

RECURSIVE SortedFrom(_, _, _)
SortedFrom(slices, i, acc) ==
    IF i > Len(slices) THEN acc
    ELSE SortedFrom(slices, i + 1, InsertByTime(acc, slices[i]))

\* Sorted that leaves the slices in the order of the buffer.
SortedAsBuffered(slices) == slices

Sorted(slices) == SortedFrom(slices, 1, <<>>)

\* QueuedSlices taking the slice [:queue], the earliest slices.
QueuedSlicesEarliest(slices, queue) ==
    IF queue = 0 THEN Sorted(slices)
    ELSE SubSeq(Sorted(slices), 1,
                IF queue < Len(slices) THEN queue ELSE Len(slices))

\* Lines 206-208: the latest queue slices (all of them for queue = 0).
QueuedSlices(slices, queue) == PySliceFrom(Sorted(slices), -1 * queue)

\* Lines 234-237: the slices written one after the other into the arrays;
\* an index outside the arrays raises IndexError.
RECURSIVE Fill(_, _, _, _)
Fill(arrays, queued, i, steps) ==
    IF arrays.exc # "none" \/ i > Len(queued) THEN arrays
    ELSE
        LET index == PyIndex(Len(arrays.ranges), queued[i].heading \div steps)
        IN  IF index < 0
            THEN [arrays EXCEPT !.exc = "IndexError"]
            ELSE Fill([arrays EXCEPT
                          !.ranges[index + 1] = queued[i].max,
                          !.intensities[index + 1] = queued[i].max_intensity],
                      queued, i + 1, steps)

\* AdvanceTime that leaves the stored time alone.
AdvanceTimeNot(self, time_increment) == self

\* Line 220: self.time += rospy.Duration.from_sec(scan.time_increment).
AdvanceTime(self, time_increment) ==
    [self EXCEPT !.time = @ + time_increment]

\* Scan.to_laser_scan: [exc, val, self]: the exception raised, the
\* LaserScan returned (None when there is none) and the Scan after the
\* call.
to_laser_scan(self, queue) ==
    IF Len(self.slices) < queue \/ empty(self)
    THEN [exc |-> "none", val |-> None, self |-> self]
    ELSE
    LET queued_slices == QueuedSlices(self.slices, queue)
        n == Len(queued_slices)
    IN  IF n = 0                                   \* queued_slices[-1]
        THEN [exc |-> "IndexError", val |-> None, self |-> self]
        ELSE
        LET scan_time == queued_slices[n].timestamp - queued_slices[1].timestamp
            time_increment == IF n > 1 THEN scan_time ELSE 0
            after == AdvanceTime(self, time_increment)
            steps == self.steps[1]
        IN  IF steps = 0                                     \* line 229
            THEN [exc |-> "ZeroDivisionError", val |-> None, self |-> after]
            ELSE
            LET num_of_headings == 6400 \div steps
                blank == [exc |-> "none",
                          ranges |-> [i \in 1..num_of_headings |-> Zero],
                          intensities |-> [i \in 1..num_of_headings |-> 0]]
                arrays == Fill(blank, queued_slices, 1, steps)
            IN  IF arrays.exc # "none"
                THEN [exc |-> arrays.exc, val |-> None, self |-> after]
                ELSE [exc |-> "none",
                      val |-> Some([time_increment |-> time_increment,
                                    scan_time |-> scan_time,
                                    stamp |-> after.time,
                                    angle_min |-> sonar_angle_to_rad(0),
                                    angle_max |-> sonar_angle_to_rad(6400),
                                    angle_increment |-> sonar_angle_to_rad(steps),
                                    range_max |-> self.range[1],
                                    range_min |-> Rat(1, 10),
                                    ranges |-> arrays.ranges,
                                    intensities |-> arrays.intensities]),
                      self |-> after]

\* Lines 254-264 of Scan.to_pointcloud: the slices' lists, concatenated.
RECURSIVE Concat(_, _, _)
Concat(slices, i, field) ==
    IF i > Len(slices) THEN <<>>
    ELSE (IF field = "points" THEN slices[i].points ELSE slices[i].data)
            \o Concat(slices, i + 1, field)

\* Scan.to_pointcloud
to_pointcloud(self) ==
    [points |-> Concat(self.slices, 1, "points"),
     channel |-> Concat(self.slices, 1, "data")]

----------------------------------------------------------------------------
(* main(): the rows are read one by one; the operations of the Scan and of *)
(* the Slice are called between two rows. An exception leaves main() and   *)
(* ends the program.                                                       *)

Init ==
    /\ scan = ScanInit
    /\ row = None
    /\ scan_slice = None
    /\ cfg \in Configs
    /\ op = <<"Scan">>
    /\ ret = None
    /\ err = "none"

\* Lines 343-344: scan_slice = Slice(row, ...); scan.add(scan_slice).
ReadRow(r) ==
    /\ err = "none"
    /\ row' = Some(r)
    /\ LET parsed == Slice(r, cfg.min_distance, cfg.min_intensity, cfg.threshold)
           added == add(scan, parsed.val)
       IN  IF parsed.exc # "none"
           THEN /\ err' = parsed.exc
                /\ op' = <<"Slice">>
                /\ UNCHANGED <<scan, scan_slice>>
           ELSE /\ Len(added.scan.slices) <= MaxSlices
                /\ scan_slice' = Some(parsed.val)
                /\ scan' = added.scan
                /\ err' = added.exc
                /\ op' = <<"add", added.path>>
    /\ ret' = None
    /\ UNCHANGED cfg

\* scan.empty()
Empty ==
    /\ err = "none"
    /\ op' = <<"empty">>
    /\ ret' = Some(empty(scan))
    /\ UNCHANGED <<scan, row, scan_slice, cfg, err>>

\* scan.full()
Full ==
    /\ err = "none"
    /\ op' = <<"full">>
    /\ err' = full(scan).exc
    /\ ret' = IF full(scan).exc = "none" THEN Some(full(scan).val) ELSE None
    /\ UNCHANGED <<scan, row, scan_slice, cfg>>

\* scan.to_laser_scan(frame, queue): lines 347 (queue = 0) and 352.
ToLaserScan(queue) ==
    /\ err = "none"
    /\ LET r == to_laser_scan(scan, queue)
       IN  /\ r.self.time <= MaxTime
           /\ scan' = r.self
           /\ ret' = r.val
           /\ err' = r.exc
    /\ op' = <<"to_laser_scan", queue>>
    /\ UNCHANGED <<row, scan_slice, cfg>>

\* scan.to_pointcloud(frame)
ToPointcloud ==
    /\ err = "none"
    /\ op' = <<"to_pointcloud">>
    /\ ret' = Some(to_pointcloud(scan))
    /\ UNCHANGED <<scan, row, scan_slice, cfg, err>>

\* scan_slice.to_pointcloud(frame): line 356.
SliceToPointcloud ==
    /\ err = "none"
    /\ scan_slice # None
    /\ op' = <<"Slice.to_pointcloud">>
    /\ ret' = Some(SliceToPointcloudResult(scan_slice[1]))
    /\ UNCHANGED <<scan, row, scan_slice, cfg, err>>

Next ==
    \/ \E r \in Rows : ReadRow(r)
    \/ Empty
    \/ Full
    \/ \E queue \in Queues : ToLaserScan(queue)
    \/ ToPointcloud
    \/ SliceToPointcloud

Spec == Init /\ [][Next]_vars

----------------------------------------------------------------------------
(* The parser alone: line 343 applied to one row, then line 356.           *)

InitSlice ==
    /\ scan = ScanInit
    /\ row \in { Some(r) : r \in ParserRows }
    /\ scan_slice = None
    /\ cfg \in ParserConfigs
    /\ op = <<"Scan">>
    /\ ret = None
    /\ err = "none"

\* Line 343: scan_slice = Slice(row, min_distance, min_intensity, threshold).
Construct ==
    /\ err = "none"
    /\ scan_slice = None
    /\ LET parsed == Slice(row[1], cfg.min_distance, cfg.min_intensity,
                           cfg.threshold)
       IN  /\ err' = parsed.exc
           /\ scan_slice' = IF parsed.exc = "none" THEN Some(parsed.val) ELSE None
    /\ op' = <<"Slice">>
    /\ UNCHANGED <<scan, row, cfg, ret>>

NextSlice == Construct \/ SliceToPointcloud

SliceSpec == InitSlice /\ [][NextSlice]_vars

----------------------------------------------------------------------------
(* What the claims speak of, stated apart from the operations above.       *)


\* The six shape fields of the aggregator, and of a slice.
ScanShape(self) ==
    <<self.range, self.num_bins, self.steps,
      self.left_limit, self.right_limit, self.clockwise>>
SliceShape(s) ==
    <<Some(s.range), Some(s.num_bins), Some(s.steps),
      Some(s.left_limit), Some(s.right_limit), Some(s.clockwise)>>

\* floor(max_range / steps) of a shape with steps # 0: max_range is 6400
\* for the pair right = 3201, left = 3199 and (right - left) mod 6400 for
\* every other pair.
HeadingsInRotation(self) ==
    LET l == self.left_limit[1]
        r == self.right_limit[1]
        max_range == IF <<l, r>> = <<3199, 3201>> THEN 6400
                     ELSE CHOOSE m \in 0..6399 :
                              \E k \in -2..2 : r - l = k * 6400 + m
    IN  max_range \div self.steps[1]

HasShape(self) == self.steps # None
IsAdd(o) == o[1] = "add"

----------------------------------------------------------------------------
(* C1: adding a slice whose shape fields differ in at least one field from *)
(* the aggregator's current shape leaves the buffer equal to the singleton *)
(* of that slice and the six shape fields equal to those of the slice,     *)
(* whatever was buffered before.                                           *)
C1_ResetOnShapeChange ==
    [][ (IsAdd(op') /\ SliceShape(scan_slice'[1]) # ScanShape(scan))
            => /\ err' = "none"
               /\ scan'.slices = <<scan_slice'[1]>>
               /\ ScanShape(scan') = SliceShape(scan_slice'[1]) ]_vars

\* A reset that followed a projection of at least two buffered slices.
C1_Witness ==
    /\ op = <<"add", "reset">>
    /\ Len(scan.slices) = 1
    /\ scan.time > 0
    /\ scan.clockwise = Some(TRUE)

(* C2: the number of buffered slices never exceeds floor(max_range/steps), *)
(* the number of headings in one rotation of the current shape, also for   *)
(* shapes for which that quotient is 0.                                    *)
C2_BufferWithinRotation ==
    (HasShape(scan) /\ scan.steps[1] # 0)
        => Len(scan.slices) <= HeadingsInRotation(scan)

(* C3: when the scan is full and a slice of the current shape is added,    *)
(* the buffer keeps its size, loses its first slice, ends with the new     *)
(* slice and keeps the order of the others.                                *)
C3_EvictOldestWhenFull ==
    [][ (/\ IsAdd(op')
         /\ SliceShape(scan_slice'[1]) = ScanShape(scan)
         /\ scan.steps[1] # 0
         /\ Len(scan.slices) = HeadingsInRotation(scan))
            => /\ err' = "none"
               /\ Len(scan'.slices) = Len(scan.slices)
               /\ scan'.slices = Tail(scan.slices) \o <<scan_slice'[1]>> ]_vars

\* An eviction from a full scan of three slices.
C3_Witness ==
    /\ op = <<"add", "evict">>
    /\ Len(scan.slices) = 3
    /\ scan.slices[3] = scan_slice[1]
    /\ scan.slices[1] # scan.slices[2]

(* C4: full() returns true iff the buffer size equals floor(max_range /    *)
(* steps), max_range being 6400 exactly for right_limit = 3201 and         *)
(* left_limit = 3199 and (right_limit - left_limit) mod 6400 otherwise;    *)
(* it returns false for the aggregator that has no shape yet.              *)
C4_FullIsComputed ==
    (op = <<"full">> /\ err = "none")
        => /\ ret # None
           /\ ret[1] = IF HasShape(scan)
                       THEN Len(scan.slices) = HeadingsInRotation(scan)
                       ELSE FALSE

\* A full scan whose right limit is below its left limit.
C4_Witness ==
    /\ op = <<"full">>
    /\ ret = Some(TRUE)
    /\ scan.right_limit = Some(0)
    /\ scan.left_limit = Some(3199)

\* Slice j comes before slice i in a stable sort by timestamp.
Before(slices, j, i) ==
    \/ slices[j].timestamp < slices[i].timestamp
    \/ slices[j].timestamp = slices[i].timestamp /\ j < i

\* The buffer positions of the k slices with the latest timestamps (of all
\* the slices for k = 0), for a buffer of at least k slices.
Latest(slices, k) ==
    IF k = 0 THEN 1..Len(slices)
    ELSE CHOOSE S \in SUBSET (1..Len(slices)) :
            /\ Cardinality(S) = k
            /\ \A i \in S : \A j \in (1..Len(slices)) \ S : Before(slices, j, i)

\* The time between the earliest and the latest timestamp of the slices at
\* the positions S.
TimeSpan(slices, S) ==
    LET ts == { slices[i].timestamp : i \in S }
    IN  (CHOOSE t \in ts : \A u \in ts : u <= t)
            - (CHOOSE t \in ts : \A u \in ts : t <= u)

\* The time_increment of to_laser_scan(queue): 0 when the result is absent
\* or one slice is selected.
TimeIncrement(self, queue) ==
    IF Len(self.slices) < queue \/ Len(self.slices) = 0 THEN 0
    ELSE IF Cardinality(Latest(self.slices, queue)) > 1
         THEN TimeSpan(self.slices, Latest(self.slices, queue))
         ELSE 0

(* C5: to_laser_scan (queue = 0 or queue = k) and Scan.to_pointcloud never *)
(* mutate the aggregator: the buffer, the six shape fields and the stored  *)
(* time are after the call what they were before it.                       *)
C5_ProjectionsReadOnly ==
    [][ op'[1] \in {"to_laser_scan", "to_pointcloud"} => scan' = scan ]_vars

(* C5 as amended: Scan.to_pointcloud changes no field of the aggregator;   *)
(* to_laser_scan changes neither the buffer nor the shape fields, and      *)
(* advances the stored time by the time_increment it computes.             *)
C5_ProjectionsOnlyAdvanceTime ==
    [][ /\ op'[1] = "to_pointcloud" => scan' = scan
        /\ op'[1] = "to_laser_scan" =>
              scan' = [scan EXCEPT !.time = @ + TimeIncrement(scan, op'[2])]
      ]_vars

\* A windowed projection of two slices that advanced the stored time.
C5_Witness ==
    /\ op = <<"to_laser_scan", 2>>
    /\ ret # None
    /\ ret[1].time_increment > 0
    /\ scan.time = 2
    /\ Len(scan.slices) = 3

(* C6: to_laser_scan with queue = 0 returns None for an aggregator without *)
(* slices, and otherwise a LaserScan whose ranges and intensities both     *)
(* have length floor(6400 / steps) (stated for steps # 0, where the        *)
(* quotient is defined).                                                   *)
C6_FullProjectionLength ==
    (op = <<"to_laser_scan", 0>> /\ (HasShape(scan) => scan.steps[1] # 0))
        => IF Len(scan.slices) = 0
           THEN err = "none" /\ ret = None
           ELSE /\ err = "none"
                /\ ret # None
                /\ Len(ret[1].ranges) = 6400 \div scan.steps[1]
                /\ Len(ret[1].intensities) = 6400 \div scan.steps[1]

(* C7: to_laser_scan with queue = k >= 1 returns None when fewer than k    *)
(* slices are buffered; the LaserScan it returns otherwise is written from *)
(* the k slices with the latest timestamps only (stable order), its time   *)
(* fields are computed from them, and every bucket none of them indexes    *)
(* keeps range 0 and intensity 0.                                          *)
C7_WindowUsesLatest ==
    (op[1] = "to_laser_scan" /\ op[2] >= 1 /\ err = "none")
        => IF Len(scan.slices) < op[2]
           THEN ret = None
           ELSE
           LET S == Latest(scan.slices, op[2])
               out == ret[1]
               writers(b) ==
                   { i \in S : scan.slices[i].heading \div scan.steps[1] = b }
           IN  /\ ret # None
               /\ out.scan_time = TimeSpan(scan.slices, S)
               /\ out.time_increment = IF op[2] > 1 THEN out.scan_time ELSE 0
               /\ \A b \in 0..(Len(out.ranges) - 1) :
                     IF writers(b) = {}
                     THEN /\ out.ranges[b + 1] = Zero
                          /\ out.intensities[b + 1] = 0
                     ELSE \E i \in writers(b) :
                            /\ \A j \in writers(b) \ {i} :
                                   Before(scan.slices, j, i)
                            /\ out.ranges[b + 1] = scan.slices[i].max
                            /\ out.intensities[b + 1] =
                                   scan.slices[i].max_intensity

\* A window of one slice that is not the slice added last: the bucket of
\* the slice added last stays empty.
C7_Witness ==
    /\ op = <<"to_laser_scan", 1>>
    /\ ret # None
    /\ Len(scan.slices) = 2
    /\ scan.slices[1].timestamp > scan.slices[2].timestamp
    /\ scan.slices[1].heading = 3200
    /\ scan.slices[2].heading = 0
    /\ ret[1].ranges[1] = Zero
    /\ ret[1].ranges[2] = scan.slices[2].max

\* The least member of a non-empty set of integers.
Least(S) == CHOOSE i \in S : \A j \in S : i <= j

(* C8: the bin a slice reports is chosen over the masked array (the bins   *)
(* at index <= min_bin_index, the min_range the parser computes at line    *)
(* 71, or with intensity <= min_intensity set to 0):                       *)
(* the first maximum of the masked array, unless a masked bin exceeds      *)
(* threshold, and then the lowest such bin; max is (index + 1) * range /   *)
(* num_bins. For the bins 10, 60, 5, 80, 40, range 10, min_distance 1 and  *)
(* min_intensity 50, threshold 1000 gives index 3 (range 8, intensity 80)  *)
(* and threshold 55 gives index 1 (range 4, intensity 60).                 *)
C8_ChosenBin ==
    (op = <<"Slice">> /\ scan_slice # None)
        =>
        LET r == row[1]
            s == scan_slice[1]
            bins == 0..(Len(r.data) - 1)
            min_bin_index == min_range(cfg.min_distance, r.range, r.num_bins)
            masked == [i \in bins |->
                          IF i <= min_bin_index \/ r.data[i + 1] <= cfg.min_intensity
                          THEN 0 ELSE r.data[i + 1]]
            over == { i \in bins :
                        masked[i] * cfg.threshold.den > cfg.threshold.num }
            maxima == { i \in bins : \A j \in bins : masked[j] <= masked[i] }
            index == IF over # {} THEN Least(over) ELSE Least(maxima)
            example == /\ r.data = <<10, 60, 5, 80, 40>>
                       /\ r.range = 100 /\ r.num_bins = 5
                       /\ cfg.min_distance = 1 /\ cfg.min_intensity = 50
        IN  /\ s.max = bin_range(r.range, index + 1, r.num_bins)
            /\ (example /\ cfg.threshold = Rat(1000, 1))
                  => s.max = Signed(FALSE, FromInt(8)) /\ s.max_intensity = 80
            /\ (example /\ cfg.threshold = Rat(55, 1))
                  => s.max = Signed(FALSE, FromInt(4)) /\ s.max_intensity = 60

\* The example row parsed with threshold 55: the nearer bin of value 60 is
\* reported, not the maximum 80.
C8_Witness ==
    /\ op = <<"Slice">>
    /\ scan_slice # None
    /\ row[1].data = <<10, 60, 5, 80, 40>>
    /\ row[1].num_bins = 5
    /\ cfg = [min_distance |-> 1, min_intensity |-> 50, threshold |-> Rat(55, 1)]
    /\ scan_slice[1].max_intensity = 60

RECURSIVE SumBins(_)
SumBins(slices) ==
    IF slices = <<>> THEN 0 ELSE Head(slices).num_bins + SumBins(Tail(slices))

(* C9: Scan.to_pointcloud returns as many points as the buffered slices    *)
(* have bins together and an intensity channel of that length; the point   *)
(* cloud of one slice has an intensity channel as long as its point list.  *)
C9_PointsMatchIntensities ==
    /\ op = <<"to_pointcloud">> =>
          /\ Len(ret[1].points) = SumBins(scan.slices)
          /\ Len(ret[1].channel) = Len(ret[1].points)
    /\ op = <<"Slice.to_pointcloud">> =>
          Len(ret[1].channel) = Len(ret[1].points)

\* A row with a malformed numeric cell or timestamp, or with fewer columns
\* than the fifteen of the header.
Malformed(r) ==
    \/ r.ncols < 15
    \/ \E c \in 1..(r.ncols - 1) : r.badcol = c

(* C10: when the parsing of a row fails (a malformed numeric cell, a bad   *)
(* timestamp, fewer columns than the header), the failure is raised before *)
(* any operation of the aggregator: the row is not added, and the buffer   *)
(* and the shape fields are what they were before the row was read.        *)
C10_ParseFailureLeavesScan ==
    [][ (row' # row /\ Malformed(row'[1]))
            => /\ err' # "none"
               /\ op' = <<"Slice">>
               /\ scan' = scan ]_vars

\* A truncated row read after two slices were buffered.
C10_Witness ==
    /\ op = <<"Slice">>
    /\ err = "IndexError"
    /\ row[1].ncols < 15
    /\ Len(scan.slices) = 2

(* C11: add never raises: for every aggregator state and every parsed      *)
(* slice, also one of steps = 0 or left_limit = right_limit that matches   *)
(* the current shape, add resets or appends and ends without an error.     *)
C11_AddNeverRaises ==
    IsAdd(op) => err = "none" /\ op[2] \in {"reset", "append", "evict"}

\* a <= b for two floats with their signs, neither of them 0.
FloatLe(a, b) ==
    IF a.neg # b.neg THEN a.neg
    ELSE IF a.neg THEN b.e < a.e \/ (b.e = a.e /\ Geq(a.m, b.m))
    ELSE a.e < b.e \/ (a.e = b.e /\ Geq(b.m, a.m))

(* C12: every slice the parser produces has 0 <= max <= range, for every   *)
(* combination of bins, min_distance, min_intensity and threshold, also    *)
(* when every bin is masked and when the row carries a number of intensity *)
(* values different from num_bins.                                         *)
C12_ChosenRangeWithinRange ==
    (op = <<"Slice">> /\ scan_slice # None)
        => /\ ~scan_slice[1].max.neg
           /\ FloatLe(scan_slice[1].max, RangeFloat(row[1].range))

(* C13: all buffered slices have the six shape fields equal to each other  *)
(* and to the aggregator's current shape fields.                           *)
C13_BufferOfOneShape ==
    \A i \in 1..Len(scan.slices) :
        SliceShape(scan.slices[i]) = ScanShape(scan)

\* Three slices of the shape left_limit = right_limit, buffered by appends
\* and projected in between.
C13_Witness ==
    /\ op = <<"add", "append">>
    /\ Len(scan.slices) = 3
    /\ scan.time > 0
    /\ scan.left_limit = Some(3201)
    /\ scan.slices[1] # scan.slices[3]

\* The buffer positions of the slices of bucket b, floor(heading / steps).
Writers(self, b) ==
    { i \in 1..Len(self.slices) :
        self.slices[i].heading \div self.steps[1] = b }

(* C14: when two or more buffered slices map to the same bucket,           *)
(* to_laser_scan with queue = 0 writes into it max and max_intensity of    *)
(* the slice inserted into the buffer last, whatever the timestamps are.   *)
C14_LastInsertedWins ==
    (op = <<"to_laser_scan", 0>> /\ ret # None)
        => \A b \in 0..(Len(ret[1].ranges) - 1) :
              Cardinality(Writers(scan, b)) >= 2 =>
                 \E i \in Writers(scan, b) :
                    /\ \A j \in Writers(scan, b) : j <= i
                    /\ ret[1].ranges[b + 1] = scan.slices[i].max
                    /\ ret[1].intensities[b + 1] = scan.slices[i].max_intensity

(* C14 as amended: the bucket holds the values of the slice that comes     *)
(* last in the stable sort by timestamp: the one of the greatest timestamp *)
(* and, among slices of that timestamp, the one inserted last.             *)
C14_LatestTimestampWins ==
    (op = <<"to_laser_scan", 0>> /\ ret # None)
        => \A b \in 0..(Len(ret[1].ranges) - 1) :
              Cardinality(Writers(scan, b)) >= 2 =>
                 \E i \in Writers(scan, b) :
                    /\ \A j \in Writers(scan, b) \ {i} : Before(scan.slices, j, i)
                    /\ ret[1].ranges[b + 1] = scan.slices[i].max
                    /\ ret[1].intensities[b + 1] = scan.slices[i].max_intensity

\* Two slices of heading 0, the first of the later timestamp: the bucket
\* holds the values of the first.
C14_Witness ==
    /\ op = <<"to_laser_scan", 0>>
    /\ ret # None
    /\ Len(scan.slices) = 2
    /\ scan.slices[1].heading = 0 /\ scan.slices[2].heading = 0
    /\ scan.slices[1].timestamp > scan.slices[2].timestamp
    /\ scan.slices[1].max # scan.slices[2].max
    /\ ret[1].ranges[1] = scan.slices[1].max

(* C15: max_intensity is the value of the chosen bin in the masked array:  *)
(* when the chosen bin is one that the masking set to 0 (every bin masked, *)
(* or a threshold below 0 choosing a masked bin), max_intensity is 0 and   *)
(* never the raw intensity of a bin within min_distance or at or below     *)
(* min_intensity.                                                          *)
C15_IntensityOfMaskedBin ==
    (op = <<"Slice">> /\ scan_slice # None)
        =>
        LET r == row[1]
            s == scan_slice[1]
            bins == 0..(Len(r.data) - 1)
            min_bin_index == min_range(cfg.min_distance, r.range, r.num_bins)
            masked == [i \in bins |->
                          IF i <= min_bin_index \/ r.data[i + 1] <= cfg.min_intensity
                          THEN 0 ELSE r.data[i + 1]]
            over == { i \in bins :
                        masked[i] * cfg.threshold.den > cfg.threshold.num }
            maxima == { i \in bins : \A j \in bins : masked[j] <= masked[i] }
            index == IF over # {} THEN Least(over) ELSE Least(maxima)
        IN  s.max_intensity = masked[index]

(* C16: in a state with slices of headings in 0..6400 and steps >= 1, the  *)
(* bucket index floor(heading / steps) of every selected slice is at least *)
(* 0 and below floor(6400 / steps), so to_laser_scan never indexes outside *)
(* the arrays.                                                             *)
C16_BucketIndexInArrays ==
    (/\ op[1] = "to_laser_scan"
     /\ Len(scan.slices) >= 1
     /\ Len(scan.slices) >= op[2]
     /\ scan.steps[1] >= 1
     /\ \A i \in 1..Len(scan.slices) : scan.slices[i].heading \in 0..6400)
        => /\ err # "IndexError"
           /\ \A i \in Latest(scan.slices, op[2]) :
                 /\ 0 <= scan.slices[i].heading \div scan.steps[1]
                 /\ scan.slices[i].heading \div scan.steps[1]
                        < 6400 \div scan.steps[1]

(* C17: the buffer is, in order, the last slices passed to add since the   *)
(* most recent reset: an add that resets leaves the slice alone, any other *)
(* add puts the slice at the tail and removes at most the head, and no     *)
(* other operation changes the buffer (nothing is reordered, duplicated or *)
(* dropped from the middle).                                               *)
C17_BufferIsRecentAdds ==
    [][ IF IsAdd(op') /\ err' = "none"
        THEN \/ /\ SliceShape(scan_slice'[1]) # ScanShape(scan)
                /\ scan'.slices = <<scan_slice'[1]>>
             \/ /\ SliceShape(scan_slice'[1]) = ScanShape(scan)
                /\ \/ scan'.slices = Append(scan.slices, scan_slice'[1])
                   \/ scan'.slices = Append(Tail(scan.slices), scan_slice'[1])
        ELSE scan'.slices = scan.slices ]_vars

\* A full scan of two slices that lost its head to a third, after a
\* projection.
C17_Witness ==
    /\ op = <<"add", "evict">>
    /\ Len(scan.slices) = 2
    /\ scan.steps = Some(3200)
    /\ scan.time > 0
    /\ scan.slices[1].timestamp > scan.slices[2].timestamp

(* C18: after the first add, empty() is false in every later state, the    *)
(* slice added last is the last of the buffer, and full() is never true of *)
(* a buffer without slices, so that no eviction is tried on one.           *)
C18_NeverEmptyAgain ==
    /\ HasShape(scan) => Len(scan.slices) >= 1
    /\ (op = <<"empty">> /\ HasShape(scan)) => ret = Some(FALSE)
    /\ (IsAdd(op) /\ err = "none") =>
          scan.slices[Len(scan.slices)] = scan_slice[1]
    /\ (op = <<"full">> /\ ret = Some(TRUE)) => Len(scan.slices) >= 1
    /\ err # "IndexError" \/ ~IsAdd(op)

\* empty() called on a scan of no heading (left_limit = right_limit) that
\* holds two slices.
C18_Witness ==
    /\ op = <<"empty">>
    /\ ret = Some(FALSE)
    /\ scan.left_limit = scan.right_limit
    /\ Len(scan.slices) = 2

(* C19: slices of one shape with steps >= 1 fill the scan in at most       *)
(* floor(max_range / steps) adds counted from the reset, and a full scan   *)
(* stays full after every further add of that shape: the reset starts the  *)
(* count at one slice, every later add of the shape brings a scan that is  *)
(* not full one slice closer to floor(max_range / steps) and never past    *)
(* it, and leaves a full scan full.                                        *)
C19_FillsAndStaysFull ==
    [][ (IsAdd(op') /\ err' = "none" /\ scan'.steps[1] >= 1)
            => LET n == HeadingsInRotation(scan')
                   same == SliceShape(scan_slice'[1]) = ScanShape(scan)
               IN  /\ Len(scan'.slices) <= n
                   /\ ~same => Len(scan'.slices) = 1
                   /\ (same /\ Len(scan.slices) < n)
                         => Len(scan'.slices) = Len(scan.slices) + 1
                   /\ (same /\ Len(scan.slices) = n)
                         => Len(scan'.slices) = n ]_vars

====
